---- MODULE Spec2Model ----
(***************************************************************************)
(* AnimalBand (src/src/App.jsx): the beat scheduler, the hit pulse and the *)
(* play/stop lifecycle of the component, as a state machine, and the       *)
(* rendering surface of its child PixiAnimals: the asynchronous creation   *)
(* of the PIXI application, its cleanup and the beat reaction effect.      *)
(*                                                                         *)
(* Time is an integer number of clock units, 16 units to the millisecond,  *)
(* so that the intervals 60000/bpm * q, the swing deltas and the poll      *)
(* periods of the tempos used here are whole numbers.                      *)
(***************************************************************************)
EXTENDS Integers, Sequences, FiniteSets, TLC

\* ------------------------------------------------------------------ bounds
MaxSteps == 4               \* clock steps after which no poll tick is delivered
MaxPlays == 2               \* playback handles created by play()
MaxConfigChanges == 2       \* tempo/quantize/swing/offset edits
MaxBeatIndex == 8           \* beats counted before the helpers are evaluated
MaxSubdivision == 4         \* subdivision factors shouldHit is evaluated at
MaxApps == 3                \* PIXI applications created by the mount effect

Ms(x) == x * 16             \* milliseconds to clock units (1/16 ms)
Step == Ms(125) \div 2      \* the clock is observed every 62.5 ms
MaxTime == MaxSteps * Step

\* ------------------------------------------------------ inputs of the UI
Tempos == {120, 300}                      \* Manual BPM field (free-form number)
Quantizes == {"1/1", "1/2", "1/4"}        \* options of the Quantize select
Swings == {0, 40}                         \* Swing range input, 0..60
Offsets == {0 - 100, 0}              \* Start Offset field, in ms (free-form)

\* Values typed into the Manual BPM field before playback, for the interval
\* computation: negative, zero, below 40, in range, above 240.
TempoInputs == {0 - 20, 0, 20, 40, 60, 120, 240, 300}

Handles == 1..MaxPlays
NoHandle == 0                             \* sourceRef.current = null

Realisms == 0..2                          \* Realism range input
AppIds == 1..MaxApps
NoApp == 0                                \* appRef.current = null

\* ------------------------------------------------------------------ state
VARIABLES
    now,                \* performance.now()
    mounted,            \* the AnimalBand component is mounted
    manualBpm, quantize, swing, offsetMs,   \* useState: tempo configuration
    isPlaying,          \* useState(false)
    beatCount,          \* useState(0)
    hitPulse,           \* useState(false)
    activeArm,          \* useState(0)
    audioBufferRef,     \* a decoded buffer is present
    sourceRef,          \* current AudioBufferSourceNode, or NoHandle
    nextBeatTimeRef,    \* planned time of the next beat
    schedulerTimerRef,  \* the setInterval timer and the values its callback closes over
    beatIndexRef,       \* beats fired since mount
    handles,            \* per source node: "none", "playing", "stopping" (stop() called,
                        \* ended not yet dispatched), "ended" (onended has run)
    pulseTimers,        \* expiry times of the pending setTimeout(()=>setHitPulse(false),100)
    liveIntervals,      \* number of window.setInterval timers set and not cleared
    realism,            \* useState(1), passed to PixiAnimals
    apps,               \* per PIXI application: its status ("none", "init" while
                        \* app.init is pending, "live", "destroyed"), its __isReady
                        \* flag, and the flag `destroyed` of the effect run that made it
    appRef,             \* appRef.current of PixiAnimals, or NoApp
    effectApp,          \* the application made by the latest run of the mount effect
    scene,              \* per application: the pad tinted (-1: none) and the
                        \* number of runs of its beat reaction
    container,          \* the application whose canvas is in the container div
    effectDeps,         \* [activeArm, hitDrums, hitViolin, hitBass] at the last
                        \* run of the beat effect
    \* history variables, read by the properties only
    lastOp,             \* the handler that ran last: "config", "stop" (the Stop
                        \* button), "stopAgain" (unmount right after it),
                        \* "playNoMedia" (play() without a buffer) or "other"
    anchor,             \* what the last scheduleBeats call set: the first planned time,
                        \* and the beat index at the call
    maxPlanned,         \* the largest planned time of the beats fired so far
    configChanges       \* number of configuration edits so far

vars == <<now, mounted, manualBpm, quantize, swing, offsetMs, isPlaying, beatCount,
          hitPulse, activeArm, audioBufferRef, sourceRef, nextBeatTimeRef,
          schedulerTimerRef, beatIndexRef, handles, pulseTimers, liveIntervals,
          realism, apps, appRef, effectApp, scene, container, effectDeps,
          lastOp, anchor, maxPlanned, configChanges>>

\* The state of PixiAnimals.
surfaceVars == <<realism, apps, appRef, effectApp, scene, container, effectDeps>>

\* --------------------------------------------------------------- helpers
Max(a, b) == IF a >= b THEN a ELSE b
Min(a, b) == IF a <= b THEN a ELSE b

\* clamp without the upper limit.
clampNoUpper(n, min, max) == Max(min, n)

clamp(n, min, max) == Max(min, Min(max, n))

\* shouldHit that tests the number of the beat after this one.
shouldHitNext(beatIndex, subdivision) ==
    IF subdivision = 0
    THEN FALSE
    ELSE (beatIndex + 1) % (IF subdivision < 0 THEN 0 - subdivision ELSE subdivision) = 0

\* beatIndex % subdivision === 0 for beatIndex >= 0: the remainder by 0 is
\* NaN, which is not 0, and the remainder by a negative divisor is the
\* remainder by its absolute value.
shouldHit(beatIndex, subdivision) ==
    IF subdivision = 0
    THEN FALSE
    ELSE beatIndex % (IF subdivision < 0 THEN 0 - subdivision ELSE subdivision) = 0

band == <<[id |-> "octo", subdivision |-> 1],
          [id |-> "seahorse", subdivision |-> 1],
          [id |-> "seal", subdivision |-> 2]>>

PulseMs == 100

NoTimer == [armed |-> FALSE, interval |-> 0, swing |-> 0, period |-> 0]

\* The part of the state the lifecycle functions read and write.
Cur == [sourceRef |-> sourceRef, handles |-> handles, isPlaying |-> isPlaying,
        schedulerTimerRef |-> schedulerTimerRef, nextBeatTimeRef |-> nextBeatTimeRef,
        beatIndexRef |-> beatIndexRef, beatCount |-> beatCount, hitPulse |-> hitPulse,
        activeArm |-> activeArm, pulseTimers |-> pulseTimers,
        liveIntervals |-> liveIntervals, anchor |-> anchor]

Apply(S) ==
    /\ sourceRef' = S.sourceRef
    /\ handles' = S.handles
    /\ isPlaying' = S.isPlaying
    /\ schedulerTimerRef' = S.schedulerTimerRef
    /\ nextBeatTimeRef' = S.nextBeatTimeRef
    /\ beatIndexRef' = S.beatIndexRef
    /\ beatCount' = S.beatCount
    /\ hitPulse' = S.hitPulse
    /\ activeArm' = S.activeArm
    /\ pulseTimers' = S.pulseTimers
    /\ liveIntervals' = S.liveIntervals
    /\ anchor' = S.anchor

\* setState of a component that is no longer mounted is ignored.
setIsPlaying(S, v) == IF mounted THEN [S EXCEPT !.isPlaying = v] ELSE S

clearScheduler(S) ==
    IF S.schedulerTimerRef.armed
    THEN [S EXCEPT !.schedulerTimerRef = NoTimer, !.liveIntervals = @ - 1]
    ELSE S

\* stop() that stops the node and forgets to release the handle.
stopNoRelease(S) ==
    LET h == S.sourceRef
        S1 == IF h # NoHandle
              THEN [S EXCEPT !.handles[h] = IF @ = "playing" THEN "stopping" ELSE @]
              ELSE S
    IN clearScheduler(setIsPlaying(S1, FALSE))

\* stop(): a node that is still playing is stopped, which makes the audio
\* subsystem dispatch its ended event later.
stop(S) ==
    LET h == S.sourceRef
        S1 == IF h # NoHandle
              THEN [S EXCEPT !.handles[h] = IF @ = "playing" THEN "stopping" ELSE @,
                             !.sourceRef = NoHandle]
              ELSE S
    IN clearScheduler(setIsPlaying(S1, FALSE))

QuantizeFactorNum(q) == IF q = "1/1" THEN 4 ELSE IF q = "1/2" THEN 2 ELSE 1

\* interval = (60000 / clamp(tempo,40,240)) * q, in clock units; q is
\* QuantizeFactorNum(q) / 4.
Interval(tempo, q) == (Ms(60000) * QuantizeFactorNum(q)) \div (clamp(tempo, 40, 240) * 4)

\* Math.max(4, Math.min(16, interval/8))
PollPeriod(interval) == Max(Ms(4), Min(Ms(16), interval \div 8))

\* interval * swingAmt * 0.5 with swingAmt = swing / 100
SwingDelta(interval, sw) == (interval * sw) \div 200

\* scheduleBeats that sets the new interval timer without clearing the one
\* in schedulerTimerRef.
scheduleBeatsNoClear(S, tempo, q, sw, off) ==
    LET interval == Interval(tempo, q)
        S1 == [S EXCEPT !.nextBeatTimeRef = now + Ms(off),
                        !.anchor = [time |-> now + Ms(off),
                                    index |-> S.beatIndexRef]]
    IN [S1 EXCEPT !.liveIntervals = @ + 1,
                  !.schedulerTimerRef =
                      [armed |-> TRUE, interval |-> interval, swing |-> sw,
                       period |-> PollPeriod(interval)]]

scheduleBeats(S, tempo, q, sw, off) ==
    LET interval == Interval(tempo, q)
        S1 == [S EXCEPT !.nextBeatTimeRef = now + Ms(off),
                        !.anchor = [time |-> now + Ms(off),
                                    index |-> S.beatIndexRef]]
    IN [clearScheduler(S1) EXCEPT !.liveIntervals = @ + 1,
                                  !.schedulerTimerRef =
                                      [armed |-> TRUE, interval |-> interval, swing |-> sw,
                                       period |-> PollPeriod(interval)]]

\* triggerBeat that never schedules the reset of the pulse.
triggerBeatNoReset(S) ==
    [S EXCEPT !.beatIndexRef = @ + 1,
              !.beatCount = @ + 1,
              !.hitPulse = TRUE,
              !.activeArm = (@ + 1) % 8]

triggerBeat(S) ==
    [S EXCEPT !.beatIndexRef = @ + 1,
              !.beatCount = @ + 1,
              !.hitPulse = TRUE,
              !.pulseTimers = Append(@, now + Ms(PulseMs)),
              !.activeArm = (@ + 1) % 8]

\* A poll callback that fires a second beat in the same tick when the first
\* one leaves the schedule behind the clock.
pollCallbackTwice(S) ==
    IF now >= S.nextBeatTimeRef
    THEN LET delta(T) == IF (T.beatIndexRef % 2) = 1
                         THEN SwingDelta(S.schedulerTimerRef.interval, S.schedulerTimerRef.swing)
                         ELSE 0
             S1 == triggerBeat(S)
             S2 == [S1 EXCEPT !.nextBeatTimeRef = @ + S.schedulerTimerRef.interval + delta(S1)]
             S3 == triggerBeat(S2)
         IN IF now >= S2.nextBeatTimeRef
            THEN [S3 EXCEPT !.nextBeatTimeRef = @ + S.schedulerTimerRef.interval + delta(S3)]
            ELSE S2
    ELSE S

\* A poll callback that plans the next beat from the time of the tick.
pollCallbackFromNow(S) ==
    IF now >= S.nextBeatTimeRef
    THEN LET S1 == triggerBeat(S)
             isOffBeat == (S1.beatIndexRef % 2) = 1
             swingDelta == IF isOffBeat
                           THEN SwingDelta(S.schedulerTimerRef.interval, S.schedulerTimerRef.swing)
                           ELSE 0
         IN [S1 EXCEPT !.nextBeatTimeRef = now + S.schedulerTimerRef.interval + swingDelta]
    ELSE S

\* The callback of the setInterval armed by scheduleBeats.
pollCallback(S) ==
    IF now >= S.nextBeatTimeRef
    THEN LET S1 == triggerBeat(S)
             isOffBeat == (S1.beatIndexRef % 2) = 1
             swingDelta == IF isOffBeat
                           THEN SwingDelta(S.schedulerTimerRef.interval, S.schedulerTimerRef.swing)
                           ELSE 0
         IN [S1 EXCEPT !.nextBeatTimeRef = @ + S.schedulerTimerRef.interval + swingDelta]
    ELSE S

play(S) ==
    LET S1 == stop(S)
        h == CHOOSE x \in Handles : S.handles[x] = "none" /\ \A y \in Handles : S.handles[y] = "none" => x <= y
        S2 == [S1 EXCEPT !.handles[h] = "playing", !.sourceRef = h]
    IN scheduleBeats(setIsPlaying(S2, TRUE), manualBpm, quantize, swing, offsetMs)

\* What a call of play() hands back to its caller: the early return taken
\* without a buffer and the normal completion both yield undefined, and
\* nothing is thrown.
playOutcome(buf) == "undefined"

\* An onended that leaves the interval timer running.
onendedKeepsTimer(S) == setIsPlaying(S, FALSE)

\* src.onended
onended(S) == clearScheduler(setIsPlaying(S, FALSE))

\* A reschedule effect without the isPlaying guard.
rescheduleEffectNoGuard(S, tempo, q, sw, off) == scheduleBeats(S, tempo, q, sw, off)

\* A reschedule effect that stops playback before it reschedules.
rescheduleEffectStops(S, tempo, q, sw, off) ==
    IF ~S.isPlaying THEN S ELSE scheduleBeats(stop(S), tempo, q, sw, off)

\* The effect on [bpm, manualBpm, quantize, swing, offsetMs], run with the
\* values of the render that changed one of them.
rescheduleEffect(S, tempo, q, sw, off) ==
    IF ~S.isPlaying THEN S ELSE scheduleBeats(S, tempo, q, sw, off)

\* ------------------------------------------------------------ PixiAnimals
NoAppRec == [status |-> "none", isReady |-> FALSE, destroyed |-> FALSE]
NoScene == [tint |-> 0 - 1, beats |-> 0]

PCur == [apps |-> apps, appRef |-> appRef, effectApp |-> effectApp,
         scene |-> scene, container |-> container]

PApply(P) ==
    /\ apps' = P.apps
    /\ appRef' = P.appRef
    /\ effectApp' = P.effectApp
    /\ scene' = P.scene
    /\ container' = P.container

\* A mount that records the application in appRef and marks it ready as soon
\* as it is created, before app.init has completed.
mountEager(P) ==
    LET a == CHOOSE x \in AppIds :
                 P.apps[x].status = "none"
                 /\ \A y \in AppIds : P.apps[y].status = "none" => x <= y
    IN [P EXCEPT !.apps[a] = [status |-> "init", isReady |-> TRUE, destroyed |-> FALSE],
                 !.appRef = a,
                 !.effectApp = a]

\* The mount effect up to `await app.init(...)`: the run's flag `destroyed`
\* is false and a new application is created.
mount(P) ==
    LET a == CHOOSE x \in AppIds :
                 P.apps[x].status = "none"
                 /\ \A y \in AppIds : P.apps[y].status = "none" => x <= y
    IN [P EXCEPT !.apps[a] = [status |-> "init", isReady |-> FALSE, destroyed |-> FALSE],
                 !.effectApp = a]

\* mount() after app.init has completed. loadAssets() has nothing to load, so
\* the rest of mount() runs in the same turn of the event loop: the
\* application is marked ready, recorded in appRef and its canvas put in the
\* container, when the container is still there.
mountResume(P, a) ==
    IF P.apps[a].destroyed
    THEN [P EXCEPT !.apps[a].status = "destroyed"]
    ELSE [P EXCEPT !.apps[a].status = "live",
                   !.apps[a].isReady = TRUE,
                   !.appRef = a,
                   !.scene[a] = NoScene,
                   !.container = IF mounted THEN a ELSE @]

\* The cleanup of the mount effect.
cleanup(P) ==
    IF P.appRef = NoApp
    THEN P
    ELSE [P EXCEPT !.apps[P.appRef].status = "destroyed",
                   !.appRef = NoApp,
                   !.container = NoApp]

\* The beat effect, run with the props of the render that changed one of
\* its dependencies. app._bow is never set, so the bow is not moved.
beatEffect(P, arm, drums, violin, bass) ==
    LET a == P.appRef
    IN IF a = NoApp
       THEN P
       ELSE IF ~P.apps[a].isReady
       THEN P
       ELSE LET P1 == [P EXCEPT !.scene[a].tint = IF drums THEN arm ELSE 0 - 1]
            IN IF drums \/ violin \/ bass
               THEN [P1 EXCEPT !.scene[a].beats = @ + 1]
               ELSE P1

\* PixiAnimals after its first render: the mount effect has run and app.init
\* is pending; the beat effect has run and found no application.
SurfaceInit ==
    /\ realism = 1
    /\ LET P == mount([apps |-> [a \in AppIds |-> NoAppRec], appRef |-> NoApp,
                       effectApp |-> NoApp, scene |-> [a \in AppIds |-> NoScene],
                       container |-> NoApp])
       IN /\ apps = P.apps
          /\ appRef = P.appRef
          /\ effectApp = P.effectApp
          /\ scene = P.scene
          /\ container = P.container

\* ---------------------------------------------------------------- Init
Init ==
    /\ now = 0
    /\ mounted = TRUE
    /\ manualBpm = 120
    /\ quantize = "1/1"
    /\ swing = 0
    /\ offsetMs = 0
    /\ isPlaying = FALSE
    /\ beatCount = 0
    /\ hitPulse = FALSE
    /\ activeArm = 0
    /\ audioBufferRef = FALSE
    /\ sourceRef = NoHandle
    /\ nextBeatTimeRef = 0
    /\ schedulerTimerRef = NoTimer
    /\ beatIndexRef = 0
    /\ handles = [h \in Handles |-> "none"]
    /\ pulseTimers = <<>>
    /\ liveIntervals = 0
    /\ SurfaceInit
    /\ effectDeps = <<0, FALSE, FALSE, FALSE>>
    /\ lastOp = "other"
    /\ anchor = [time |-> 0, index |-> 0]
    /\ maxPlanned = 0
    /\ configChanges = 0

\* A component that has counted beats in earlier sessions, with a decoded
\* buffer and a tempo and quantize setting typed in while idle.
InputInit ==
    /\ now = 0
    /\ mounted = TRUE
    /\ manualBpm \in TempoInputs
    /\ quantize \in Quantizes
    /\ swing = 0
    /\ offsetMs = 0
    /\ isPlaying = FALSE
    /\ beatCount \in 0..MaxBeatIndex
    /\ hitPulse = FALSE
    /\ activeArm = beatCount % 8
    /\ audioBufferRef = TRUE
    /\ sourceRef = NoHandle
    /\ nextBeatTimeRef = 0
    /\ schedulerTimerRef = NoTimer
    /\ beatIndexRef = beatCount
    /\ handles = [h \in Handles |-> "none"]
    /\ pulseTimers = <<>>
    /\ liveIntervals = 0
    /\ SurfaceInit
    /\ effectDeps = <<activeArm, FALSE, FALSE, FALSE>>
    /\ lastOp = "other"
    /\ anchor = [time |-> 0, index |-> beatCount]
    /\ maxPlanned = 0
    /\ configChanges = 0

\* `${ms.toFixed(0)} ms`: the text shown, as the whole number of milliseconds
\* nearest to a time that is not negative.
formatMs(ms) == (ms + (Ms(1) \div 2)) \div Ms(1)

\* The interval the render computes for the "Beat interval" line.
intervalMs == Ms(60000) \div clamp(manualBpm, 40, 240)

\* Per-member hit flags of the render.
hitDrums == shouldHit(beatCount, band[1].subdivision) /\ hitPulse
hitViolin == shouldHit(beatCount, band[2].subdivision) /\ hitPulse
hitBass == shouldHit(beatCount, band[3].subdivision) /\ hitPulse

\* ---------------------------------------------------------------- actions
Config == <<manualBpm, quantize, swing, offsetMs>>

\* The clock advances by one step. A setTimeout callback that is due, and the
\* ended event of a node that stop() was called on, run before the clock is
\* read again; the time during which no timer is pending is not counted.
Advance ==
    /\ now < MaxTime + Ms(PulseMs)
    /\ ~(~schedulerTimerRef.armed /\ pulseTimers = <<>>)
    /\ \A i \in 1..Len(pulseTimers) : now < pulseTimers[i]
    /\ \A h \in Handles : handles[h] # "stopping"
    /\ now' = now + Step
    /\ lastOp' = "other"
    /\ UNCHANGED <<mounted, manualBpm, quantize, swing, offsetMs, isPlaying, beatCount,
                   hitPulse, activeArm, audioBufferRef, sourceRef, nextBeatTimeRef,
                   schedulerTimerRef, beatIndexRef, handles, pulseTimers, liveIntervals,
                   anchor, maxPlanned, configChanges>>
    /\ UNCHANGED surfaceVars

\* onAudioPick: a file is picked and decoded.
AudioPick ==
    /\ mounted
    /\ ~audioBufferRef
    /\ audioBufferRef' = TRUE
    /\ lastOp' = "other"
    /\ UNCHANGED <<now, mounted, manualBpm, quantize, swing, offsetMs, isPlaying, beatCount,
                   hitPulse, activeArm, sourceRef, nextBeatTimeRef,
                   schedulerTimerRef, beatIndexRef, handles, pulseTimers, liveIntervals,
                   anchor, maxPlanned, configChanges>>
    /\ UNCHANGED surfaceVars

\* Play / Stop button while not playing: play().
ClickPlay ==
    /\ mounted
    /\ ~isPlaying
    /\ IF ~audioBufferRef
       THEN /\ Apply(Cur)
            /\ lastOp' = "playNoMedia"
       ELSE /\ \E h \in Handles : handles[h] = "none"
            /\ Apply(play(Cur))
            /\ lastOp' = "other"
    /\ UNCHANGED <<now, mounted, manualBpm, quantize, swing, offsetMs, audioBufferRef,
                   maxPlanned, configChanges>>
    /\ UNCHANGED surfaceVars

\* Play / Stop button while playing: stop().
ClickStop ==
    /\ mounted
    /\ isPlaying
    /\ Apply(stop(Cur))
    /\ lastOp' = "stop"
    /\ UNCHANGED <<now, mounted, manualBpm, quantize, swing, offsetMs, audioBufferRef,
                   maxPlanned, configChanges>>
    /\ UNCHANGED surfaceVars

\* The ended event of a source node: it played to its end, or stop() was
\* called on it earlier.
Ended ==
    \E h \in Handles :
        /\ handles[h] \in {"playing", "stopping"}
        /\ Apply(onended([Cur EXCEPT !.handles[h] = "ended"]))
        /\ lastOp' = "other"
        /\ UNCHANGED <<now, mounted, manualBpm, quantize, swing, offsetMs, audioBufferRef,
                       maxPlanned, configChanges>>
    /\ UNCHANGED surfaceVars

\* One of the tempo inputs changes; the effect on [bpm, manualBpm, quantize,
\* swing, offsetMs] then runs with the new values.
ConfigChange ==
    /\ mounted
    /\ configChanges < MaxConfigChanges
    /\ configChanges' = configChanges + 1
    /\ \E t \in Tempos, q \in Quantizes, sw \in Swings, off \in Offsets :
        /\ Cardinality({i \in 1..4 : <<t, q, sw, off>>[i] # Config[i]}) = 1
        /\ manualBpm' = t /\ quantize' = q /\ swing' = sw /\ offsetMs' = off
        /\ Apply(rescheduleEffect(Cur, t, q, sw, off))
    /\ lastOp' = "config"
    /\ UNCHANGED <<now, mounted, audioBufferRef, maxPlanned>>
    /\ UNCHANGED surfaceVars

\* The setInterval callback runs, after the setTimeout callbacks that were
\* due before this reading of the clock. The poll period (at most 16 ms) is
\* shorter than a step of the clock, so several callbacks may read the same
\* time.
PollTick ==
    /\ schedulerTimerRef.armed
    /\ \A i \in 1..Len(pulseTimers) : now <= pulseTimers[i]
    /\ now <= MaxTime
    /\ LET S == pollCallback(Cur)
           fires == now >= nextBeatTimeRef
       IN /\ Apply(S)
          /\ lastOp' = "other"
          /\ maxPlanned' = IF fires /\ (beatIndexRef = 0 \/ nextBeatTimeRef > maxPlanned)
                           THEN nextBeatTimeRef ELSE maxPlanned
    /\ UNCHANGED <<now, mounted, manualBpm, quantize, swing, offsetMs, audioBufferRef,
                   configChanges>>
    /\ UNCHANGED surfaceVars

\* A pending setTimeout(()=>setHitPulse(false), 100) runs.
PulseReset ==
    /\ pulseTimers # <<>>
    /\ now >= Head(pulseTimers)
    /\ pulseTimers' = Tail(pulseTimers)
    /\ hitPulse' = IF mounted THEN FALSE ELSE hitPulse
    /\ lastOp' = "other"
    /\ UNCHANGED <<now, mounted, manualBpm, quantize, swing, offsetMs, isPlaying, beatCount,
                   activeArm, audioBufferRef, sourceRef, nextBeatTimeRef,
                   schedulerTimerRef, beatIndexRef, handles, liveIntervals,
                   anchor, maxPlanned, configChanges>>
    /\ UNCHANGED surfaceVars

\* The component unmounts: the cleanup of the [] effect calls stop(), and
\* the cleanup of the mount effect of PixiAnimals runs.
Unmount ==
    /\ mounted
    /\ Apply(stop(Cur))
    /\ mounted' = FALSE
    /\ lastOp' = IF lastOp = "stop" THEN "stopAgain" ELSE "other"
    /\ UNCHANGED <<now, manualBpm, quantize, swing, offsetMs, audioBufferRef,
                   maxPlanned, configChanges>>
    /\ PApply(cleanup(PCur))
    /\ UNCHANGED <<realism, effectDeps>>

Deps == <<activeArm, hitDrums, hitViolin, hitBass>>

\* app.init of an application resolves and mount() goes on.
InitDone ==
    \E a \in AppIds :
        /\ apps[a].status = "init"
        /\ PApply(mountResume(PCur, a))
        /\ UNCHANGED <<now, mounted, manualBpm, quantize, swing, offsetMs, isPlaying,
                       beatCount, hitPulse, activeArm, audioBufferRef, sourceRef,
                       nextBeatTimeRef, schedulerTimerRef, beatIndexRef, handles,
                       pulseTimers, liveIntervals, realism, effectDeps,
                       lastOp, anchor, maxPlanned, configChanges>>

\* The Realism input changes: PixiAnimals re-renders with the new prop, the
\* cleanup of the mount effect runs and the effect runs again.
RealismChange ==
    /\ mounted
    /\ \E a \in AppIds : apps[a].status = "none"
    /\ \E r \in Realisms \ {realism} : realism' = r
    /\ PApply(mount(cleanup(PCur)))
    /\ UNCHANGED <<now, mounted, manualBpm, quantize, swing, offsetMs, isPlaying,
                   beatCount, hitPulse, activeArm, audioBufferRef, sourceRef,
                   nextBeatTimeRef, schedulerTimerRef, beatIndexRef, handles,
                   pulseTimers, liveIntervals, effectDeps,
                   lastOp, anchor, maxPlanned, configChanges>>

\* A render of PixiAnimals in which activeArm or a hit flag differs from the
\* last run of the beat effect: the effect runs.
BeatEffect ==
    /\ mounted
    /\ Deps # effectDeps
    /\ effectDeps' = Deps
    /\ PApply(beatEffect(PCur, activeArm, hitDrums, hitViolin, hitBass))
    /\ UNCHANGED <<now, mounted, manualBpm, quantize, swing, offsetMs, isPlaying,
                   beatCount, hitPulse, activeArm, audioBufferRef, sourceRef,
                   nextBeatTimeRef, schedulerTimerRef, beatIndexRef, handles,
                   pulseTimers, liveIntervals, realism,
                   lastOp, anchor, maxPlanned, configChanges>>

Next ==
    \/ Advance
    \/ AudioPick
    \/ ClickPlay
    \/ ClickStop
    \/ Ended
    \/ ConfigChange
    \/ PollTick
    \/ PulseReset
    \/ Unmount

Spec == Init /\ [][Next]_vars

\* The helpers at work at one reading of the clock, from the settings typed
\* in before playback.
InputNext ==
    \/ ClickPlay
    \/ ClickStop
    \/ Ended
    \/ PollTick

InputSpec == InputInit /\ [][InputNext]_vars

\* The rendering surface together with playback at the default tempo
\* configuration: the user loads a track, plays and stops it, moves the
\* Realism input, and the component unmounts, while app.init calls complete
\* in any order.
SurfaceNext ==
    \/ Advance
    \/ PulseReset
    \/ AudioPick
    \/ ClickPlay
    \/ ClickStop
    \/ Ended
    \/ PollTick
    \/ Unmount
    \/ InitDone
    \/ RealismChange
    \/ BeatEffect

SurfaceSpec == Init /\ [][SurfaceNext]_vars

\* Timer callbacks that are due run, the ended event of a node is dispatched,
\* and the clock advances.
FairSpec == Spec /\ WF_vars(PulseReset) /\ WF_vars(Ended) /\ WF_vars(Advance)

\* The interval timer keeps calling its callback while it is armed, and
\* timeouts that are due run; the clock may stand still.
CatchUpSpec == Spec /\ WF_vars(PollTick) /\ WF_vars(PulseReset)

\* ---------------------------------------------------------------- claims
\* Beats fired since the last scheduleBeats call.
BeatsSinceAnchor == beatIndexRef - anchor.index

\* The number of odd values among b+1 .. b+n.
OddsIn(b, n) == ((b + n + 1) \div 2) - ((b + 1) \div 2)

\* C1: within a session with no config change, the planned time of the N-th
\* beat is anchor + N*interval plus the swing deltas accumulated so far,
\* whatever the times of the poll ticks were.
DriftInvariant ==
    schedulerTimerRef.armed =>
        nextBeatTimeRef = anchor.time
                          + BeatsSinceAnchor * schedulerTimerRef.interval
                          + OddsIn(anchor.index, BeatsSinceAnchor)
                            * SwingDelta(schedulerTimerRef.interval, schedulerTimerRef.swing)

\* Beats of one schedule with swing have fired, on an even and on an odd
\* index, and the next one is planned off the instants at which the clock is
\* read.
DriftWitness ==
    /\ schedulerTimerRef.armed
    /\ schedulerTimerRef.swing > 0
    /\ BeatsSinceAnchor >= 2
    /\ nextBeatTimeRef % Step # 0

\* C2: every firing increments the index by one, and the planned
\* time of a fired beat is never smaller than that of a beat fired before it.
OrderedBeats ==
    [][beatIndexRef' # beatIndexRef =>
          /\ beatIndexRef' = beatIndexRef + 1
          /\ beatIndexRef > 0 => nextBeatTimeRef >= maxPlanned]_vars

\* C3: when beats fire less than the pulse duration apart the pulse is
\* deactivated once, at the expiry of the later beat: when hitPulse goes from
\* active to inactive, no reset of a beat that fired within the pulse duration
\* of the beat whose reset ran is still ahead. Stated for two beats of one
\* schedule, so that no configuration change lies between them.
PulseExtended ==
    [][(hitPulse /\ ~hitPulse' /\ BeatsSinceAnchor >= 2) =>
          \A i \in 1..Len(pulseTimers') :
              pulseTimers'[i] - Head(pulseTimers) < Ms(PulseMs) => pulseTimers'[i] <= now]_vars

\* C4: until 100 ms have passed since the last beat the pulse is active.
\* Stated for a beat that follows another beat of the same schedule, so that
\* the interval between them is one the configuration allows.
MinPulseDuration ==
    (/\ mounted
     /\ pulseTimers # <<>>
     /\ now < pulseTimers[Len(pulseTimers)]
     /\ BeatsSinceAnchor >= 2) => hitPulse

\* C5: an active pulse eventually becomes inactive (or goes away with the
\* component), and only a beat makes it active again.
PulseEventuallyOff ==
    /\ (mounted /\ hitPulse) ~> (~hitPulse \/ ~mounted)
    /\ [][(~hitPulse /\ hitPulse') => beatIndexRef' = beatIndexRef + 1]_vars

\* The pulse has gone inactive after playback was stopped while it was active.
PulseOffWitness ==
    /\ mounted
    /\ ~isPlaying
    /\ beatIndexRef > 0
    /\ ~hitPulse
    /\ pulseTimers = <<>>
    /\ now < maxPlanned + Ms(PulseMs) + Step

\* C6: stop() from any state leaves the handle null, the phase stopped, the
\* timer cleared and the beat index, beat count and next scheduled time as
\* they were, and a second stop() changes nothing.
StopIdempotent ==
    LET S1 == stop(Cur)
    IN /\ stop(S1) = S1
       /\ S1.sourceRef = NoHandle
       /\ ~S1.isPlaying
       /\ ~S1.schedulerTimerRef.armed
       /\ S1.beatIndexRef = beatIndexRef
       /\ S1.beatCount = beatCount
       /\ S1.nextBeatTimeRef = nextBeatTimeRef
       /\ S1.pulseTimers = pulseTimers
       /\ (sourceRef = NoHandle /\ ~isPlaying /\ ~schedulerTimerRef.armed) => S1 = Cur

\* stop() has run (at unmount) right after the Stop button ran it on a
\* session that had fired a beat.
StopTwiceWitness ==
    /\ lastOp = "stopAgain"
    /\ beatIndexRef > 0

\* C7: while stopped no beat fires and the beat index does not change.
NoBeatWhileStopped ==
    [][~isPlaying => (beatIndexRef' = beatIndexRef /\ beatCount' = beatCount
                      /\ ~schedulerTimerRef.armed)]_vars

\* A configuration change was made after a session that fired beats stopped.
StoppedConfigWitness ==
    /\ lastOp = "config"
    /\ ~isPlaying
    /\ beatIndexRef > 0

\* C8: handling the ended event of the current node leaves the state stop()
\* leaves: phase stopped, timer cleared, handle nulled.
EndedLikeStop ==
    [][(isPlaying /\ sourceRef # NoHandle /\ handles[sourceRef] = "playing"
        /\ handles'[sourceRef] = "ended") =>
          (~isPlaying' /\ ~schedulerTimerRef'.armed /\ sourceRef' = NoHandle)]_vars

\* C9: a configuration change while playing leaves the armed next scheduled
\* time as it is.
RescheduleKeepsSlot ==
    [][(isPlaying /\ Config' # Config) => nextBeatTimeRef' = nextBeatTimeRef]_vars

\* C10: a configuration change while playing keeps the playback handle, the
\* phase and the beat index, and re-arms the timer with the new interval.
RescheduleKeepsPlayback ==
    [][(isPlaying /\ Config' # Config) =>
          /\ sourceRef' = sourceRef
          /\ handles' = handles
          /\ isPlaying'
          /\ beatIndexRef' = beatIndexRef
          /\ beatCount' = beatCount
          /\ schedulerTimerRef'.armed
          /\ schedulerTimerRef'.interval = Interval(manualBpm', quantize')]_vars

\* The configuration changed during a session that had fired a beat.
RescheduleWitness ==
    /\ lastOp = "config"
    /\ isPlaying
    /\ beatIndexRef > 0
    /\ sourceRef # NoHandle

\* C11: play() without a decoded buffer reports NoMediaLoaded to its caller
\* and leaves the phase, the handle, the timer and the beat index unchanged.
PlayNoMediaFails ==
    [][lastOp' = "playNoMedia" =>
          /\ playOutcome(audioBufferRef) = "NoMediaLoaded"
          /\ isPlaying' = isPlaying
          /\ sourceRef' = sourceRef
          /\ handles' = handles
          /\ schedulerTimerRef' = schedulerTimerRef
          /\ beatIndexRef' = beatIndexRef]_vars

\* C12: after the component has unmounted the scheduler timer is cleared, the
\* playback handle is nulled and no node is left playing, and no pulse-reset
\* timer is pending.
TeardownReleasesAll ==
    ~mounted =>
        /\ ~schedulerTimerRef.armed
        /\ sourceRef = NoHandle
        /\ \A h \in Handles : handles[h] # "playing"
        /\ pulseTimers = <<>>

\* C13: in a session started by play() with the default configuration
\* (120, 1/1, swing 0, offset 0; no configuration change has ever been made),
\* the beats carry the indices 0, 1, 2, ... of the session: the index of a
\* beat, read before triggerBeat increments it, is the number of beats the
\* session has fired before it.
SessionIndicesFromZero ==
    [][(configChanges = 0 /\ beatIndexRef' = beatIndexRef + 1) =>
          beatIndexRef = BeatsSinceAnchor]_vars

\* C14: for every beat index i >= 0 and every factor k >= 1, shouldHit(i, k)
\* is true exactly when i is a multiple of k.
ShouldHitMultiples ==
    \A k \in 1..MaxSubdivision :
        shouldHit(beatCount, k) <=> (\E m \in 0..beatCount : m * k = beatCount)

\* The fourth beat has just fired: the index 4 hits at factors 1, 2 and 4 and
\* not at 3, and the bass (factor 2) is hit.
ShouldHitWitness ==
    /\ beatCount = 4
    /\ hitPulse
    /\ hitBass
    /\ shouldHit(beatCount, 4)
    /\ ~shouldHit(beatCount, 3)

\* C15: a performer with factor k is hit during the pulse of the beat with
\* 0-based index i exactly when i % k = 0. The index of a beat is the number
\* of beats counted before it; the factors of the band are 1, 1 and 2.
PerformerReacts ==
    [][beatCount' = beatCount + 1 =>
          /\ hitDrums' <=> (beatCount % band[1].subdivision = 0)
          /\ hitViolin' <=> (beatCount % band[2].subdivision = 0)
          /\ hitBass' <=> (beatCount % band[3].subdivision = 0)]_vars

\* C16: for every tempo typed in and every quantize setting the interval of
\* the armed scheduler is (60000 / b) * q, with b the tempo limited to
\* 40..240 and q = 1, 1/2 or 1/4: interval * b = 60000 * q.
IntervalClamped ==
    schedulerTimerRef.armed =>
        LET b == IF manualBpm < 40 THEN 40 ELSE IF manualBpm > 240 THEN 240 ELSE manualBpm
            q4 == CASE quantize = "1/1" -> 4 [] quantize = "1/2" -> 2 [] quantize = "1/4" -> 1
        IN schedulerTimerRef.interval * b * 4 = Ms(60000) * q4

\* A scheduler armed at a tempo that is not positive, at quantize 1/2: the
\* interval is that of 40 bpm, 1500 ms / 2.
IntervalClampedWitness ==
    /\ schedulerTimerRef.armed
    /\ manualBpm <= 0
    /\ quantize = "1/2"
    /\ schedulerTimerRef.interval = Ms(750)

\* C18: the beat interval shown in the UI is the interval the armed scheduler
\* advances the next scheduled time by, quantize factor included.
DisplayedIntervalIsUsed ==
    schedulerTimerRef.armed => formatMs(intervalMs) = formatMs(schedulerTimerRef.interval)

\* C19: when the beat with 0-based index i fires (i is beatIndexRef before
\* triggerBeat increments it), the next scheduled time advances by the
\* interval, plus the swing delta exactly when i is odd; the delta is never
\* negative.
SwingOnOddIndex ==
    [][beatIndexRef' = beatIndexRef + 1 =>
          /\ SwingDelta(schedulerTimerRef.interval, schedulerTimerRef.swing) >= 0
          /\ nextBeatTimeRef' - nextBeatTimeRef =
                schedulerTimerRef.interval
                + (IF beatIndexRef % 2 = 1
                   THEN SwingDelta(schedulerTimerRef.interval, schedulerTimerRef.swing)
                   ELSE 0)]_vars

\* C20: a poll tick fires at most one beat; a fired beat advances the next
\* scheduled time from its own planned time by one interval (plus the swing
\* delta, if any), and nothing else moves it but a new schedule, so no missed
\* slot is dropped; and a schedule that has fallen behind the clock is
\* caught up (or stopped) while ticks are delivered.
StallCatchUp ==
    /\ [][/\ beatIndexRef' <= beatIndexRef + 1
          /\ beatIndexRef' = beatIndexRef + 1 =>
                nextBeatTimeRef' - nextBeatTimeRef \in
                    {schedulerTimerRef.interval,
                     schedulerTimerRef.interval
                     + SwingDelta(schedulerTimerRef.interval, schedulerTimerRef.swing)}
          /\ nextBeatTimeRef' # nextBeatTimeRef =>
                (beatIndexRef' = beatIndexRef + 1 \/ anchor' # anchor)]_vars
    /\ (schedulerTimerRef.armed /\ now >= nextBeatTimeRef /\ now <= MaxTime)
         ~> (now < nextBeatTimeRef \/ ~schedulerTimerRef.armed \/ now > MaxTime)

\* A schedule with offset 0 was stalled past two of its slots: the last two
\* beats fired at this reading of the clock, one per tick, and the next
\* scheduled time is ahead of the clock again.
StallCatchUpWitness ==
    /\ schedulerTimerRef.armed
    /\ offsetMs = 0
    /\ BeatsSinceAnchor >= 2
    /\ Len(pulseTimers) >= 2
    /\ pulseTimers[Len(pulseTimers)] = now + Ms(PulseMs)
    /\ pulseTimers[Len(pulseTimers) - 1] = now + Ms(PulseMs)
    /\ now < nextBeatTimeRef
    /\ now >= anchor.time + schedulerTimerRef.interval

\* C21: at most one interval timer is live, and it is the one recorded in
\* schedulerTimerRef: the number of timers set and not cleared is 1 while
\* the ref holds a timer and 0 while it is null.
SingleTimer ==
    liveIntervals = (IF schedulerTimerRef.armed THEN 1 ELSE 0)

\* The timer was re-armed during playback by a configuration change, after
\* an earlier session had been stopped.
SingleTimerWitness ==
    /\ lastOp = "config"
    /\ isPlaying
    /\ schedulerTimerRef.armed
    /\ liveIntervals = 1
    /\ \E h \in Handles : handles[h] \in {"stopping", "ended"} /\ h # sourceRef

\* C23: an ended notification of a handle that stop() or play() already
\* stopped never affects the current session: whenever the handle in
\* sourceRef is still playing, the scheduler timer is armed and the phase is
\* Playing.
StaleEndedHarmless ==
    (mounted /\ sourceRef # NoHandle /\ handles[sourceRef] = "playing")
        => (schedulerTimerRef.armed /\ isPlaying)

\* C24: the scheduler is armed only while Playing, and a tempo, quantize,
\* swing or offset change made while stopped leaves the timer null and fires
\* no beat.
ArmedOnlyWhilePlaying ==
    /\ [](schedulerTimerRef.armed => isPlaying)
    /\ [][(~isPlaying /\ Config' # Config)
            => (~schedulerTimerRef'.armed /\ liveIntervals' = 0
                /\ beatIndexRef' = beatIndexRef /\ beatCount' = beatCount)]_vars

\* A configuration change made after a session that fired beats had ended by
\* itself: the phase is Stopped and the timer is null.
ArmedOnlyWitness ==
    /\ lastOp = "config"
    /\ ~isPlaying
    /\ ~schedulerTimerRef.armed
    /\ beatIndexRef > 0
    /\ sourceRef # NoHandle
    /\ handles[sourceRef] = "ended"

SingleLiveSurface ==
    /\ appRef # NoApp => appRef = effectApp
    /\ Cardinality({a \in AppIds : apps[a].status = "live"}) <= 1
    /\ ~mounted => (appRef = NoApp /\ \A a \in AppIds : apps[a].status # "live")

====
